---------------------------- MODULE Spec2Model ----------------------------
(***************************************************************************)
(* A model of the Go package uuidv8 (uuidv8.go, helper.go).                *)
(*                                                                         *)
(* Representation of Go values:                                            *)
(*   byte    a number in 0..255                                            *)
(*   uint16  a number in 0..65535                                          *)
(*   uint64  a tuple of 16 hexadecimal digits (0..15), most significant    *)
(*           first; every shift in the package is a multiple of 4 bits,    *)
(*           so each shift, OR and truncation is exact on this form        *)
(*   string  a tuple of one-character strings (Go bytes)                   *)
(*   []byte  a tuple of bytes                                              *)
(*   error   the chain of wrapped messages, outermost first; nil is << >>  *)
(*   interface{} / driver.Value                                            *)
(*           a record [type, v]: the dynamic type and the text it holds    *)
(***************************************************************************)
EXTENDS Integers, Sequences, FiniteSets

(***************************************************************************)
(* Constants of the package.                                               *)
(***************************************************************************)
variantRFC4122 == 2
versionV8 == 8
TimestampBits32 == 32
TimestampBits48 == 48
TimestampBits60 == 60

(***************************************************************************)
(* Bounds of the model.                                                    *)
(***************************************************************************)
\* node arguments have 0..MaxNodeLen bytes
MaxNodeLen == 7
\* truncated and over-long texts have 0..36+MaxExtraLen characters
MaxExtraLen == 2

(***************************************************************************)
(* Machine arithmetic.                                                     *)
(***************************************************************************)
RECURSIVE BitAnd(_, _)
\* a & b on non-negative integers
BitAnd(a, b) ==
    IF a = 0 \/ b = 0 THEN 0
    ELSE (a % 2) * (b % 2) + 2 * BitAnd(a \div 2, b \div 2)

RECURSIVE BitOr(_, _)
\* a | b on non-negative integers
BitOr(a, b) ==
    IF a = 0 THEN b
    ELSE IF b = 0 THEN a
    ELSE (IF a % 2 = 1 \/ b % 2 = 1 THEN 1 ELSE 0) + 2 * BitOr(a \div 2, b \div 2)

\* byte(x): conversion of an unsigned integer to uint8
ToByte(x) == x % 256

\* the uint64 zero
Zero64 == [i \in 1..16 |-> 0]

\* the hexadecimal digit of uint64 t holding bits k..k+3 (k a multiple of 4)
Nibble(t, k) == IF k >= 64 THEN 0 ELSE t[16 - (k \div 4)]

\* a faulty ByteShr: the shift is dropped, byte(t)
ByteShr_NoShift(t, k) == 16 * t[15] + t[16]

\* byte(t >> k) for a uint64 t and k a multiple of 4
ByteShr(t, k) == 16 * Nibble(t, k + 4) + Nibble(t, k)

\* uint64(b) << k for a byte b and k a multiple of 4, k <= 56
ShlByte(b, k) ==
    [i \in 1..16 |->
        IF i = 16 - (k \div 4) THEN b % 16
        ELSE IF i = 15 - (k \div 4) THEN b \div 16
        ELSE 0]

\* a faulty Or64: the right operand is dropped
Or64_Left(x, y) == x

\* x | y on uint64
Or64(x, y) == [i \in 1..16 |-> BitOr(x[i], y[i])]

(***************************************************************************)
(* Characters and the standard library's hexadecimal codec.                *)
(***************************************************************************)
\* the zero byte of a freshly made []byte, seen as a character
NUL == "NUL"

\* encoding/hex's table "0123456789abcdef"
hextable == <<"0", "1", "2", "3", "4", "5", "6", "7", "8", "9",
              "a", "b", "c", "d", "e", "f">>

\* the upper-case letters hex.fromHexChar also accepts, 'A'..'F'
hexupper == <<"A", "B", "C", "D", "E", "F">>

\* hex.fromHexChar: the digit's value, or -1 when c is no hex digit
fromHexChar(c) ==
    IF \E i \in 1..16 : hextable[i] = c
    THEN (CHOOSE i \in 1..16 : hextable[i] = c) - 1
    ELSE IF \E i \in 1..6 : hexupper[i] = c
    THEN (CHOOSE i \in 1..6 : hexupper[i] = c) + 9
    ELSE -1

\* a faulty EncodeHex: the %X verb, upper-case digits
RECURSIVE EncodeHex_Upper(_)
EncodeHex_Upper(b) ==
    IF b = << >> THEN << >>
    ELSE LET digit(d) == IF d < 10 THEN hextable[d + 1] ELSE hexupper[d - 9]
         IN  <<digit(Head(b) \div 16), digit(Head(b) % 16)>>
                \o EncodeHex_Upper(Tail(b))

\* the %x verb on a byte slice: two lower-case digits per byte
RECURSIVE EncodeHex(_)
EncodeHex(b) ==
    IF b = << >> THEN << >>
    ELSE <<hextable[(Head(b) \div 16) + 1], hextable[(Head(b) % 16) + 1]>>
            \o EncodeHex(Tail(b))

\* the 0 flag and width w of %0wx: zeros on the left up to w characters
RECURSIVE PadZero(_, _)
PadZero(w, s) == IF Len(s) >= w THEN s ELSE PadZero(w, <<"0">> \o s)

\* fmt's "%0wx" applied to a byte slice
SprintfX(w, b) == PadZero(w, EncodeHex(b))

\* hex.Decode's loop: the bytes decoded before the first pair holding a
\* character that is no hex digit, and whether such a pair was met
RECURSIVE DecodePairs(_, _)
DecodePairs(s, acc) ==
    IF Len(s) < 2 THEN [bytes |-> acc, bad |-> FALSE]
    ELSE IF fromHexChar(s[1]) < 0 \/ fromHexChar(s[2]) < 0
    THEN [bytes |-> acc, bad |-> TRUE]
    ELSE DecodePairs(SubSeq(s, 3, Len(s)),
                     Append(acc, 16 * fromHexChar(s[1]) + fromHexChar(s[2])))

ErrInvalidByte == <<"encoding/hex: invalid byte">>
ErrHexLength == <<"encoding/hex: odd length hex string">>

\* hex.DecodeString: the decoded prefix and the error
DecodeString(s) ==
    LET r == DecodePairs(s, << >>)
    IN  IF r.bad THEN [bytes |-> r.bytes, err |-> ErrInvalidByte]
        ELSE IF Len(s) % 2 = 1
        THEN [bytes |-> r.bytes,
              err |-> IF fromHexChar(s[Len(s)]) < 0 THEN ErrInvalidByte
                      ELSE ErrHexLength]
        ELSE [bytes |-> r.bytes, err |-> << >>]

(***************************************************************************)
(* helper.go                                                               *)
(***************************************************************************)
ErrTimestampBits == <<"unsupported timestamp bit size">>
ErrInvalidFormat == <<"invalid UUID format">>
ErrInvalidLength == <<"invalid UUID length">>

\* uuid[i], ... = v, ... : the buffer with the 0-based bytes from `at` on
\* replaced by vals
SetBytes(uuid, at, vals) ==
    [i \in 1..Len(uuid) |->
        IF i > at /\ i <= at + Len(vals) THEN vals[i - at] ELSE uuid[i]]

\* a faulty encodeTimestamp: an unsupported width is encoded as 48 bits
\* instead of being refused
encodeTimestamp_Default48(uuid, timestamp, timestampBits) ==
    IF timestampBits = TimestampBits32
    THEN [uuid |-> SetBytes(uuid, 0,
                      <<ByteShr(timestamp, 24), ByteShr(timestamp, 16),
                        ByteShr(timestamp, 8), ByteShr(timestamp, 0), 0, 0>>),
          err |-> << >>]
    ELSE IF timestampBits = TimestampBits60
    THEN [uuid |-> SetBytes(uuid, 0,
                      <<ByteShr(timestamp, 52), ByteShr(timestamp, 44),
                        ByteShr(timestamp, 36), ByteShr(timestamp, 28),
                        ByteShr(timestamp, 20), ByteShr(timestamp, 12),
                        ByteShr(timestamp, 4)>>),
          err |-> << >>]
    ELSE [uuid |-> SetBytes(uuid, 0,
                      <<ByteShr(timestamp, 40), ByteShr(timestamp, 32),
                        ByteShr(timestamp, 24), ByteShr(timestamp, 16),
                        ByteShr(timestamp, 8), ByteShr(timestamp, 0)>>),
          err |-> << >>]

\* encodeTimestamp: the buffer written and the error
encodeTimestamp(uuid, timestamp, timestampBits) ==
    IF timestampBits = TimestampBits32
    THEN [uuid |-> SetBytes(uuid, 0,
                      <<ByteShr(timestamp, 24), ByteShr(timestamp, 16),
                        ByteShr(timestamp, 8), ByteShr(timestamp, 0), 0, 0>>),
          err |-> << >>]
    ELSE IF timestampBits = TimestampBits48
    THEN [uuid |-> SetBytes(uuid, 0,
                      <<ByteShr(timestamp, 40), ByteShr(timestamp, 32),
                        ByteShr(timestamp, 24), ByteShr(timestamp, 16),
                        ByteShr(timestamp, 8), ByteShr(timestamp, 0)>>),
          err |-> << >>]
    ELSE IF timestampBits = TimestampBits60
    THEN [uuid |-> SetBytes(uuid, 0,
                      <<ByteShr(timestamp, 52), ByteShr(timestamp, 44),
                        ByteShr(timestamp, 36), ByteShr(timestamp, 28),
                        ByteShr(timestamp, 20), ByteShr(timestamp, 12),
                        ByteShr(timestamp, 4)>>),
          err |-> << >>]
    ELSE [uuid |-> uuid, err |-> ErrTimestampBits]

\* decodeTimestamp: bytes 0..5 as a 48-bit big-endian number
decodeTimestamp(uuidBytes) ==
    Or64(ShlByte(uuidBytes[1], 40),
    Or64(ShlByte(uuidBytes[2], 32),
    Or64(ShlByte(uuidBytes[3], 24),
    Or64(ShlByte(uuidBytes[4], 16),
    Or64(ShlByte(uuidBytes[5], 8), ShlByte(uuidBytes[6], 0))))))

\* the loop of parseUUID: the characters of uuid that are no dash, copied
\* into a 32-byte result that starts as zero bytes
RemoveDashes(uuid) ==
    LET kept == SelectSeq(uuid, LAMBDA c : c # "-")
    IN  [j \in 1..32 |-> IF j <= Len(kept) THEN kept[j] ELSE NUL]

\* a faulty parseUUID: the dashes of a 36-character string are removed
\* without checking where they stand
parseUUID_NoDashCheck(uuid) ==
    IF Len(uuid) = 32 THEN DecodeString(uuid)
    ELSE IF Len(uuid) = 36 THEN DecodeString(RemoveDashes(uuid))
    ELSE [bytes |-> << >>, err |-> ErrInvalidLength]

\* parseUUID: the bytes and the error
parseUUID(uuid) ==
    IF Len(uuid) = 32 THEN DecodeString(uuid)
    ELSE IF Len(uuid) = 36
    THEN IF uuid[9] # "-" \/ uuid[14] # "-" \/ uuid[19] # "-" \/ uuid[24] # "-"
         THEN [bytes |-> << >>, err |-> ErrInvalidFormat]
         ELSE DecodeString(RemoveDashes(uuid))
    ELSE [bytes |-> << >>, err |-> ErrInvalidLength]

\* a faulty isAllZeroUUID: the loop returns after the first byte
isAllZeroUUID_FirstByte(uuidBytes) == uuidBytes = << >> \/ uuidBytes[1] = 0

\* isAllZeroUUID
isAllZeroUUID(uuidBytes) == \A i \in 1..Len(uuidBytes) : uuidBytes[i] = 0

\* a faulty formatUUID: the last group is cut at byte 13, uuid[10:14]
formatUUID_ShortTail(uuid) ==
    SprintfX(8, SubSeq(uuid, 1, 4)) \o <<"-">> \o
    SprintfX(4, SubSeq(uuid, 5, 6)) \o <<"-">> \o
    SprintfX(4, SubSeq(uuid, 7, 8)) \o <<"-">> \o
    SprintfX(4, SubSeq(uuid, 9, 10)) \o <<"-">> \o
    SprintfX(12, SubSeq(uuid, 11, 14))

\* formatUUID, for a buffer of 16 bytes
formatUUID(uuid) ==
    SprintfX(8, SubSeq(uuid, 1, 4)) \o <<"-">> \o
    SprintfX(4, SubSeq(uuid, 5, 6)) \o <<"-">> \o
    SprintfX(4, SubSeq(uuid, 7, 8)) \o <<"-">> \o
    SprintfX(4, SubSeq(uuid, 9, 10)) \o <<"-">> \o
    SprintfX(12, SubSeq(uuid, 11, 16))

(***************************************************************************)
(* uuidv8.go                                                               *)
(***************************************************************************)
ErrNodeLength == <<"node must be 6 bytes">>

\* the nil *UUIDv8: a value of the structs' shape that is none of them
Nil == [Timestamp |-> << >>, ClockSeq |-> -1, Node |-> << >>]

\* make([]byte, 16)
Make16 == [i \in 1..16 |-> 0]

\* copy(dst[at:], src): as many bytes as fit
Copy(dst, at, src) ==
    [i \in 1..Len(dst) |->
        IF i > at /\ i <= at + Len(src) THEN src[i - at] ELSE dst[i]]

\* byte 6: (byte(versionV8) << 4) | byte(clockSeq >> 8)
VersionByte(clockSeq) ==
    BitOr(ToByte(versionV8 * 16), ToByte(clockSeq \div 256))

\* a faulty VariantByte: the variant is ORed in without masking b first
VariantByte_NoMask(b) == BitOr(b, ToByte(variantRFC4122 * 64))

\* byte 7 with the variant set: (b & 0x3F) | (variantRFC4122 << 6)
VariantByte(b) == BitOr(BitAnd(b, 63), ToByte(variantRFC4122 * 64))

\* NewWithParams: the string and the error
NewWithParams(timestamp, clockSeq, node, timestampBits) ==
    IF Len(node) # 6 THEN [uuid |-> << >>, err |-> ErrNodeLength]
    ELSE LET e == encodeTimestamp(Make16, timestamp, timestampBits)
         IN  IF e.err # << >> THEN [uuid |-> << >>, err |-> e.err]
             ELSE LET b6 == SetBytes(e.uuid, 6, <<VersionByte(clockSeq)>>)
                      b7 == SetBytes(b6, 7, <<ToByte(clockSeq)>>)
                      bv == SetBytes(b7, 7, <<VariantByte(b7[8])>>)
                  IN  [uuid |-> formatUUID(Copy(bv, 8, node)), err |-> << >>]

\* FromString: the struct (Nil on error) and the error
FromString(uuid) ==
    LET p == parseUUID(uuid)
        uuidBytes == p.bytes
    IN  IF p.err # << >>
        THEN [u |-> Nil, err |-> <<"failed to parse UUID">> \o p.err]
        ELSE [u |-> [Timestamp |->
                        Or64(ShlByte(uuidBytes[1], 40),
                        Or64(ShlByte(uuidBytes[2], 32),
                        Or64(ShlByte(uuidBytes[3], 24),
                        Or64(ShlByte(uuidBytes[4], 16),
                        Or64(ShlByte(uuidBytes[5], 8),
                             ShlByte(uuidBytes[6], 0)))))),
                    ClockSeq |->
                        BitOr(BitAnd(uuidBytes[7], 15) * 256, uuidBytes[8]),
                    Node |-> SubSeq(uuidBytes, 9, 14)],
              err |-> << >>]

\* IsValidUUIDv8
IsValidUUIDv8(uuid) ==
    LET p == parseUUID(uuid)
    IN  IF p.err # << >> \/ isAllZeroUUID(p.bytes) THEN FALSE
        ELSE LET version == p.bytes[7] \div 16
                 variant == BitAnd(p.bytes[8] \div 64, 3)
             IN  version = versionV8 /\ variant = variantRFC4122

\* a faulty ToString: the timestamp is encoded with the unsupported
\* width 64, so the error branch is taken
ToString_Width64(uuidv8) ==
    LET e == encodeTimestamp(Make16, uuidv8.Timestamp, 64)
    IN  IF e.err # << >> THEN << >>
        ELSE LET b6 == SetBytes(e.uuid, 6, <<VersionByte(uuidv8.ClockSeq)>>)
                 b7 == SetBytes(b6, 7, <<ToByte(uuidv8.ClockSeq)>>)
                 bv == SetBytes(b7, 7, <<VariantByte(b7[8])>>)
             IN  formatUUID(Copy(bv, 8, uuidv8.Node))

\* ToString of a non-nil struct (encodeTimestamp cannot fail for width 48,
\* the error branch returns the empty string)
ToString(uuidv8) ==
    LET e == encodeTimestamp(Make16, uuidv8.Timestamp, TimestampBits48)
    IN  IF e.err # << >> THEN << >>
        ELSE LET b6 == SetBytes(e.uuid, 6, <<VersionByte(uuidv8.ClockSeq)>>)
                 b7 == SetBytes(b6, 7, <<ToByte(uuidv8.ClockSeq)>>)
                 bv == SetBytes(b7, 7, <<VariantByte(b7[8])>>)
             IN  formatUUID(Copy(bv, 8, uuidv8.Node))

\* a faulty ReadsOfNew: the node is read after the first read failed
ReadsOfNew_NodeAnyway(okSeq, okNode) == <<okSeq, okNode>>

\* the calls of rand.Read New makes, each with its outcome: the node is
\* read only after the clock sequence was
ReadsOfNew(okSeq, okNode) == IF ~okSeq THEN <<FALSE>> ELSE <<TRUE, okNode>>

\* a faulty BigEndianUint16: the two bytes read little-endian
BigEndianUint16_Little(b) == b[2] * 256 + b[1]

\* binary.BigEndian.Uint16 of two bytes
BigEndianUint16(b) == b[1] * 256 + b[2]

\* a faulty FromStringOrNil: byte 6 is not masked with 0x0F
FromStringOrNil_NoMask(uuid) ==
    LET p == parseUUID(uuid)
        uuidBytes == p.bytes
    IN  IF p.err # << >> \/ isAllZeroUUID(uuidBytes) THEN Nil
        ELSE [Timestamp |-> decodeTimestamp(SubSeq(uuidBytes, 1, 6)),
              ClockSeq |-> BitOr(uuidBytes[7] * 256, uuidBytes[8]),
              Node |-> SubSeq(uuidBytes, 9, 14)]

\* FromStringOrNil: the struct, or Nil
FromStringOrNil(uuid) ==
    LET p == parseUUID(uuid)
        uuidBytes == p.bytes
    IN  IF p.err # << >> \/ isAllZeroUUID(uuidBytes) THEN Nil
        ELSE [Timestamp |-> decodeTimestamp(SubSeq(uuidBytes, 1, 6)),
              ClockSeq |->
                  BitOr(BitAnd(uuidBytes[7], 15) * 256, uuidBytes[8]),
              Node |-> SubSeq(uuidBytes, 9, 14)]

(***************************************************************************)
(* encoding/json, as far as MarshalJSON and UnmarshalJSON use it: a Go     *)
(* string written as a JSON string, and a JSON text read into a Go string. *)
(***************************************************************************)
QUOTE == "\""
BACKSLASH == "\\"

\* a byte that is none of the characters named in asciiCodes
AnyByte == "?"

\* the control characters a JSON string cannot hold unescaped
ControlChars == {NUL, "BS", "HT", "LF", "FF", "CR"}

\* the lower-case letters
letters ==
    <<"a", "b", "c", "d", "e", "f", "g", "h", "i", "j", "k", "l", "m",
      "n", "o", "p", "q", "r", "s", "t", "u", "v", "w", "x", "y", "z">>

\* the characters of the model and their ASCII codes
asciiCodes ==
    { <<0, NUL>>, <<8, "BS">>, <<9, "HT">>, <<10, "LF">>, <<12, "FF">>,
      <<13, "CR">>, <<32, " ">>, <<34, QUOTE>>, <<45, "-">>, <<47, "/">>,
      <<92, BACKSLASH>> }
        \cup { <<48 + d, hextable[d + 1]>> : d \in 0..9 }
        \cup { <<65 + d, hexupper[d + 1]>> : d \in 0..5 }
        \cup { <<97 + d, letters[d + 1]>> : d \in 0..25 }

\* the character of an ASCII code
CharOf(code) ==
    IF \E p \in asciiCodes : p[1] = code
    THEN (CHOOSE p \in asciiCodes : p[1] = code)[2]
    ELSE AnyByte

\* the UTF-8 bytes of a code point below 0x10000
RuneBytes(code) ==
    IF code < 128 THEN <<CharOf(code)>>
    ELSE IF code < 2048 THEN <<AnyByte, AnyByte>>
    ELSE <<AnyByte, AnyByte, AnyByte>>

\* the escape json.Marshal writes for a character, or the character
jsonEscape(c) ==
    IF c = QUOTE \/ c = BACKSLASH THEN <<BACKSLASH, c>>
    ELSE IF c = "BS" THEN <<BACKSLASH, "b">>
    ELSE IF c = "FF" THEN <<BACKSLASH, "f">>
    ELSE IF c = "LF" THEN <<BACKSLASH, "n">>
    ELSE IF c = "CR" THEN <<BACKSLASH, "r">>
    ELSE IF c = "HT" THEN <<BACKSLASH, "t">>
    ELSE IF c = NUL THEN <<BACKSLASH, "u", "0", "0", "0", "0">>
    ELSE <<c>>

RECURSIVE jsonEscapeAll(_)
jsonEscapeAll(s) ==
    IF s = << >> THEN << >> ELSE jsonEscape(Head(s)) \o jsonEscapeAll(Tail(s))

\* a faulty jsonMarshal: the quotes are left out
jsonMarshal_Bare(s) == jsonEscapeAll(s)

\* json.Marshal of a Go string: the escaped characters in double quotes
jsonMarshal(s) == <<QUOTE>> \o jsonEscapeAll(s) \o <<QUOTE>>

\* getu4: the code of a \uXXXX escape at the head of s, or -1
getu4(s) ==
    IF Len(s) < 6 \/ s[1] # BACKSLASH \/ s[2] # "u" THEN -1
    ELSE IF \E i \in 3..6 : fromHexChar(s[i]) < 0 THEN -1
    ELSE 4096 * fromHexChar(s[3]) + 256 * fromHexChar(s[4])
            + 16 * fromHexChar(s[5]) + fromHexChar(s[6])

\* the character a one-letter escape stands for, NUL when there is none
unescaped(c) ==
    IF c \in {QUOTE, BACKSLASH, "/"} THEN c
    ELSE IF c = "b" THEN "BS"
    ELSE IF c = "f" THEN "FF"
    ELSE IF c = "n" THEN "LF"
    ELSE IF c = "r" THEN "CR"
    ELSE IF c = "t" THEN "HT"
    ELSE NUL

\* the inside of a JSON string literal read into a Go string: ok is false
\* at a bare quote, a control character or a malformed escape
RECURSIVE unquote(_, _)
unquote(s, acc) ==
    IF s = << >> THEN [s |-> acc, ok |-> TRUE]
    ELSE IF s[1] = QUOTE \/ s[1] \in ControlChars
    THEN [s |-> acc, ok |-> FALSE]
    ELSE IF s[1] # BACKSLASH THEN unquote(Tail(s), Append(acc, s[1]))
    ELSE IF Len(s) < 2 THEN [s |-> acc, ok |-> FALSE]
    ELSE IF unescaped(s[2]) # NUL
    THEN unquote(SubSeq(s, 3, Len(s)), Append(acc, unescaped(s[2])))
    ELSE IF getu4(s) < 0 THEN [s |-> acc, ok |-> FALSE]
    ELSE LET rr == getu4(s)
             rest == SubSeq(s, 7, Len(s))
             rr1 == getu4(rest)
         IN  IF rr < 55296 \/ rr >= 57344
             THEN unquote(rest, acc \o RuneBytes(rr))
             ELSE IF rr < 56320 /\ rr1 >= 56320 /\ rr1 < 57344
             THEN unquote(SubSeq(rest, 7, Len(rest)),
                          acc \o <<AnyByte, AnyByte, AnyByte, AnyByte>>)
             ELSE unquote(rest, acc \o RuneBytes(65533))

\* s without the spaces around it
RECURSIVE TrimSpace(_)
TrimSpace(s) ==
    IF s = << >> THEN s
    ELSE IF s[1] = " " THEN TrimSpace(Tail(s))
    ELSE IF s[Len(s)] = " " THEN TrimSpace(SubSeq(s, 1, Len(s) - 1))
    ELSE s

\* the error of encoding/json: a syntax error or a value that is no string
ErrJSON == <<"json">>

\* json.Unmarshal(data, &uuidStr) for a string variable that holds "":
\* a string literal is stored, null leaves the variable as it is, and
\* anything else is an error
jsonUnmarshal(data) ==
    LET t == TrimSpace(data)
    IN  IF t = <<"n", "u", "l", "l">> THEN [s |-> << >>, err |-> << >>]
        ELSE IF Len(t) >= 2 /\ t[1] = QUOTE /\ t[Len(t)] = QUOTE
        THEN LET r == unquote(SubSeq(t, 2, Len(t) - 1), << >>)
             IN  IF r.ok THEN [s |-> r.s, err |-> << >>]
                 ELSE [s |-> << >>, err |-> ErrJSON]
        ELSE [s |-> << >>, err |-> ErrJSON]

(***************************************************************************)
(* uuidv8.go: the JSON and database bindings                               *)
(***************************************************************************)
ErrNotValidObject == <<"object is not a valid UUIDv8">>
ErrNotValidString == <<"string representation is not a valid UUIDv8">>
ErrNotValidInput == <<"input is not a valid UUIDv8">>
ErrUnsupportedType == <<"unsupported type for UUIDv8">>

\* a faulty MarshalJSON: a zero Timestamp is not rejected
MarshalJSON_AnyTimestamp(u) ==
    IF u = Nil \/ Len(u.Node) # 6 \/ u.ClockSeq > 4095
    THEN [data |-> << >>, err |-> ErrNotValidObject]
    ELSE LET uuidStr == ToString(u)
         IN  IF ~IsValidUUIDv8(uuidStr)
             THEN [data |-> << >>, err |-> ErrNotValidString]
             ELSE [data |-> jsonMarshal(uuidStr), err |-> << >>]

\* u.MarshalJSON(): the bytes (none on error) and the error
MarshalJSON(u) ==
    IF u = Nil \/ Len(u.Node) # 6 \/ u.Timestamp = Zero64 \/ u.ClockSeq > 4095
    THEN [data |-> << >>, err |-> ErrNotValidObject]
    ELSE LET uuidStr == ToString(u)
         IN  IF ~IsValidUUIDv8(uuidStr)
             THEN [data |-> << >>, err |-> ErrNotValidString]
             ELSE [data |-> jsonMarshal(uuidStr), err |-> << >>]

\* a faulty UnmarshalJSON: the string is parsed without the validity check
UnmarshalJSON_NoValidCheck(u, data) ==
    LET j == jsonUnmarshal(data)
        parsed == FromString(j.s)
    IN  IF j.err # << >>
        THEN [u |-> u, err |-> <<"failed to unmarshal JSON">> \o j.err,
              panic |-> FALSE]
        ELSE IF parsed.err # << >>
        THEN [u |-> u, err |-> <<"failed to parse UUID string">> \o parsed.err,
              panic |-> FALSE]
        ELSE IF u = Nil THEN [u |-> u, err |-> << >>, panic |-> TRUE]
        ELSE [u |-> parsed.u, err |-> << >>, panic |-> FALSE]

\* a faulty UnmarshalJSON: the parsed struct is stored before the validity
\* check
UnmarshalJSON_AssignFirst(u, data) ==
    LET j == jsonUnmarshal(data)
        uuidStr == j.s
        parsed == FromString(uuidStr)
    IN  IF j.err # << >>
        THEN [u |-> u, err |-> <<"failed to unmarshal JSON">> \o j.err,
              panic |-> FALSE]
        ELSE IF parsed.err # << >>
        THEN [u |-> u, err |-> <<"failed to parse UUID string">> \o parsed.err,
              panic |-> FALSE]
        ELSE IF u = Nil THEN [u |-> u, err |-> << >>, panic |-> TRUE]
        ELSE IF ~IsValidUUIDv8(uuidStr)
        THEN [u |-> parsed.u, err |-> ErrNotValidInput, panic |-> FALSE]
        ELSE [u |-> parsed.u, err |-> << >>, panic |-> FALSE]

\* u.UnmarshalJSON(data): the receiver after the call, the error, and
\* whether *u = *parsed dereferenced a nil receiver
UnmarshalJSON(u, data) ==
    LET j == jsonUnmarshal(data)
        uuidStr == j.s
        parsed == FromString(uuidStr)
    IN  IF j.err # << >>
        THEN [u |-> u, err |-> <<"failed to unmarshal JSON">> \o j.err,
              panic |-> FALSE]
        ELSE IF ~IsValidUUIDv8(uuidStr)
        THEN [u |-> u, err |-> ErrNotValidInput, panic |-> FALSE]
        ELSE IF parsed.err # << >>
        THEN [u |-> u, err |-> <<"failed to parse UUID string">> \o parsed.err,
              panic |-> FALSE]
        ELSE IF u = Nil THEN [u |-> u, err |-> << >>, panic |-> TRUE]
        ELSE [u |-> parsed.u, err |-> << >>, panic |-> FALSE]

\* the nil interface value, and a string held in an interface value
NilValue == [type |-> "nil", v |-> << >>]
StringValue(s) == [type |-> "string", v |-> s]

\* a faulty Value: the struct is checked as MarshalJSON checks it
Value_AsMarshalJSON(u) ==
    IF u = Nil \/ Len(u.Node) # 6 \/ u.Timestamp = Zero64 \/ u.ClockSeq > 4095
    THEN [value |-> NilValue, err |-> << >>]
    ELSE [value |-> StringValue(ToString(u)), err |-> << >>]

\* u.Value(): the driver.Value and the error
Value(u) ==
    IF u = Nil \/ Len(u.Node) # 6 THEN [value |-> NilValue, err |-> << >>]
    ELSE [value |-> StringValue(ToString(u)), err |-> << >>]

\* a faulty Scan: a []byte is taken for an unsupported type
Scan_StringOnly(u, value) ==
    IF value.type = "string"
    THEN LET parsed == FromString(value.v)
         IN  IF parsed.err # << >>
             THEN [u |-> u, err |-> parsed.err, panic |-> FALSE]
             ELSE IF u = Nil THEN [u |-> u, err |-> << >>, panic |-> TRUE]
             ELSE [u |-> parsed.u, err |-> << >>, panic |-> FALSE]
    ELSE [u |-> u, err |-> ErrUnsupportedType, panic |-> FALSE]

\* u.Scan(value): the receiver after the call, the error, and whether
\* *u = *parsed dereferenced a nil receiver; string(v) of a []byte is the
\* same bytes
Scan(u, value) ==
    IF value.type = "string" \/ value.type = "[]byte"
    THEN LET parsed == FromString(value.v)
         IN  IF parsed.err # << >>
             THEN [u |-> u, err |-> parsed.err, panic |-> FALSE]
             ELSE IF u = Nil THEN [u |-> u, err |-> << >>, panic |-> TRUE]
             ELSE [u |-> parsed.u, err |-> << >>, panic |-> FALSE]
    ELSE [u |-> u, err |-> ErrUnsupportedType, panic |-> FALSE]

(***************************************************************************)
(* The inputs the calls are tried on.                                      *)
(***************************************************************************)
\* uint64 timestamps: 0, 1, 123456789, 1633024800000000000, 2^48-1,
\* 2^60-1, 2^64-1, 0x0123456789abcdef and 6000 * 2^48 (the clock reading
\* 1688849860263936000 ns, 2023-07-08 20:57:40.263936 UTC)
Timestamps ==
    { <<0,0,0,0, 0,0,0,0, 0,0,0,0, 0,0,0,0>>,
      <<1,7,7,0, 0,0,0,0, 0,0,0,0, 0,0,0,0>>,
      <<0,0,0,0, 0,0,0,0, 0,0,0,0, 0,0,0,1>>,
      <<0,0,0,0, 0,0,0,0, 0,7,5,11, 12,13,1,5>>,
      <<1,6,10,9, 10,11,6,7, 4,9,6,7, 4,0,0,0>>,
      <<0,0,0,0, 15,15,15,15, 15,15,15,15, 15,15,15,15>>,
      <<0,15,15,15, 15,15,15,15, 15,15,15,15, 15,15,15,15>>,
      <<15,15,15,15, 15,15,15,15, 15,15,15,15, 15,15,15,15>>,
      <<0,1,2,3, 4,5,6,7, 8,9,10,11, 12,13,14,15>> }

\* uint16 clock sequences: each group of bits alone, the values of the
\* tests and the README, and values above 12 bits
ClockSeqs ==
    { 0, 1, 63, 64, 100, 128, 192, 255, 1234, 2048, 4095,
      4096, 4660, 32768, 61440, 65535 }

\* the node 01 02 03 ... of n bytes
NodeOf(n) == [i \in 1..n |-> i]

\* nodes of 0..MaxNodeLen bytes, and two more of 6 bytes
Nodes ==
    { NodeOf(n) : n \in 0..MaxNodeLen }
        \cup { [i \in 1..6 |-> 255], [i \in 1..6 |-> 0] }

\* the timestampBits of the tests: the supported three, 0, 16, 64 and 100
Widths == { 0, 16, TimestampBits32, TimestampBits48, TimestampBits60, 64, 100 }

\* structs a caller may build by hand
Structs == [Timestamp : Timestamps, ClockSeq : ClockSeqs, Node : Nodes]

\* 16-byte buffers: all zero, the identifiers of the tests and the README,
\* identifiers with letters and non-zero bytes 14 and 15, all 0xFF, and
\* the buffers with one non-zero byte
Buffers ==
    { [i \in 1..16 |-> 0], [i \in 1..16 |-> 255],
      <<1, 182, 155, 79, 0, 0, 136, 0, 1, 2, 3, 4, 5, 6, 0, 0>>,
      <<1, 182, 155, 79, 0, 0, 136, 128, 1, 2, 3, 4, 5, 6, 0, 0>>,
      <<154, 61, 64, 73, 14, 44, 112, 128, 1, 2, 3, 4, 5, 6, 0, 0>>,
      <<154, 61, 64, 73, 14, 44, 144, 128, 1, 2, 3, 4, 5, 6, 0, 0>>,
      <<222, 173, 190, 239, 202, 254, 138, 188, 157, 239, 1, 35, 69, 103, 137, 171>>,
      <<22, 169, 171, 103, 73, 103, 143, 191, 255, 255, 255, 255, 255, 255, 171, 205>>,
      <<0, 0, 0, 0, 0, 0, 128, 128, 0, 0, 0, 0, 0, 0, 0, 0>>,
      <<0, 0, 0, 0, 0, 0, 128, 192, 0, 0, 0, 0, 0, 0, 0, 0>>,
      <<0, 0, 0, 0, 0, 0, 128, 64, 0, 0, 0, 0, 0, 0, 0, 0>> }
        \cup { [i \in 1..16 |-> IF i = p THEN v ELSE 0] :
                  p \in 1..16, v \in {1, 128} }

\* the digits a caller writes: lower-case, or upper-case
DigitsOf(upper) ==
    IF upper
    THEN <<"0", "1", "2", "3", "4", "5", "6", "7", "8", "9",
           "A", "B", "C", "D", "E", "F">>
    ELSE <<"0", "1", "2", "3", "4", "5", "6", "7", "8", "9",
           "a", "b", "c", "d", "e", "f">>

\* the 32 digits of a 16-byte buffer, as a caller writes them
TextDigits(b, upper) ==
    [k \in 1..32 |->
        IF k % 2 = 1 THEN DigitsOf(upper)[(b[(k + 1) \div 2] \div 16) + 1]
        ELSE DigitsOf(upper)[(b[k \div 2] % 16) + 1]]

\* 32 characters grouped 8-4-4-4-12 with dashes
WithDashes(s) ==
    SubSeq(s, 1, 8) \o <<"-">> \o SubSeq(s, 9, 12) \o <<"-">> \o
    SubSeq(s, 13, 16) \o <<"-">> \o SubSeq(s, 17, 20) \o <<"-">> \o
    SubSeq(s, 21, 32)

\* the text of a buffer, dashed or not, in either case
TextOf(b, dashed, upper) ==
    IF dashed THEN WithDashes(TextDigits(b, upper)) ELSE TextDigits(b, upper)

\* s with its i-th character replaced by c
Replace(s, i, c) == [k \in 1..Len(s) |-> IF k = i THEN c ELSE s[k]]

\* the identifier whose texts are damaged below
BaseBuffer ==
    <<222, 173, 190, 239, 202, 254, 138, 188, 157, 239, 1, 35, 69, 103, 137, 171>>

\* the strings of the tests that are no identifiers
TestStrings ==
    { <<"i", "n", "v", "a", "l", "i", "d", "-", "u", "u", "i", "d">>,
      <<"1", "2", "3", "4">>,
      <<"n", "o", "t", "-", "a", "-", "u", "u", "i", "d">>,
      <<"g", "i", "b", "b", "e", "r", "i", "s", "h", "-", "n", "o", "t",
        "-", "a", "-", "u", "u", "i", "d">> }

\* the strings a caller passes: every buffer in its four spellings, the
\* base identifier with one character replaced by a dash, a letter that is
\* no digit, a zero byte or a digit, its prefixes and over-long forms, and
\* the strings of the tests
InputStrings ==
    { TextOf(b, d, up) : b \in Buffers, d \in BOOLEAN, up \in BOOLEAN }
        \cup { Replace(TextOf(BaseBuffer, d, FALSE), i, c) :
                  d \in BOOLEAN, i \in 1..36, c \in {"-", "g", NUL, "0"} }
        \cup { SubSeq(TextOf(BaseBuffer, TRUE, FALSE) \o <<"0", "0", "0", "0">>, 1, n) :
                  n \in 0..(36 + MaxExtraLen) }
        \cup { TextOf(BaseBuffer, FALSE, FALSE) \o <<"0", "0", "0", "0">> }
        \cup TestStrings

\* the struct of the README and of TestMarshalValidUUID, TestUUIDv8_Value
ReadmeStruct ==
    [Timestamp |-> <<0,0,0,0, 0,0,0,0, 0,7,5,11, 12,13,1,5>>,
     ClockSeq |-> 2048,
     Node |-> NodeOf(6)]

\* the receivers of UnmarshalJSON and Scan: a nil pointer, the zero value
\* (var u UUIDv8) and a struct that holds an identifier
Receivers ==
    { Nil, [Timestamp |-> Zero64, ClockSeq |-> 0, Node |-> << >>],
      ReadmeStruct }

\* the ASCII code of a character of the model
CodeOf(c) == (CHOOSE p \in asciiCodes : p[2] = c)[1]

\* s in double quotes, as it stands
Quoted(s) == <<QUOTE>> \o s \o <<QUOTE>>

\* s in double quotes with spaces around
Spaced(s) == <<" ">> \o Quoted(s) \o <<" ", " ">>

\* s in double quotes with its first character written as \u00XX
EscapedHead(s) ==
    <<QUOTE, BACKSLASH, "u", "0", "0",
      hextable[(CodeOf(s[1]) \div 16) + 1], hextable[(CodeOf(s[1]) % 16) + 1]>>
        \o Tail(s) \o <<QUOTE>>

\* the lower-case dashed texts of the buffers
BufferTexts == { TextOf(b, TRUE, FALSE) : b \in Buffers }

\* JSON texts that are no string, or no JSON: null, a number, a boolean,
\* an object, an array, nothing, a bare word, an identifier without
\* quotes, with one quote, with a character after the closing quote, with
\* a quote inside, with a malformed escape and with a cut \u escape
NonStrings ==
    { <<"n", "u", "l", "l">>, <<"1", "2", "3">>, <<"t", "r", "u", "e">>,
      <<"{", "}">>, <<"[", "]">>, << >>, <<"n", "u", "l", "l", "x">>,
      TextOf(BaseBuffer, TRUE, FALSE),
      <<QUOTE>> \o TextOf(BaseBuffer, TRUE, FALSE),
      Quoted(TextOf(BaseBuffer, TRUE, FALSE)) \o <<"x">>,
      Quoted(Replace(TextOf(BaseBuffer, TRUE, FALSE), 9, QUOTE)),
      Quoted(<<BACKSLASH, "x">> \o TextOf(BaseBuffer, TRUE, FALSE)),
      Quoted(<<BACKSLASH, "u", "0", "0", "6">> \o TextOf(BaseBuffer, TRUE, FALSE)),
      Quoted(TextOf(BaseBuffer, TRUE, FALSE) \o <<BACKSLASH>>) }

\* the data UnmarshalJSON is given: every input string in quotes, the
\* texts of the buffers with spaces around and with an escaped first
\* character, two strings with escapes that are no identifier, and the
\* texts that are no JSON string
JSONInputs ==
    { Quoted(s) : s \in InputStrings }
        \cup { Spaced(s) : s \in BufferTexts }
        \cup { EscapedHead(s) : s \in BufferTexts }
        \cup { Quoted(<<BACKSLASH, "n">> \o TextOf(BaseBuffer, TRUE, FALSE)),
               Quoted(<<BACKSLASH, "u", "d", "8", "3", "d",
                        BACKSLASH, "u", "d", "e", "0", "0">>
                          \o SubSeq(TextOf(BaseBuffer, TRUE, FALSE), 5, 36)) }
        \cup NonStrings

\* the values Scan is given: every input string as a string and as a
\* []byte, nil, an int64 and a bool
ScanValues ==
    { [type |-> t, v |-> s] : t \in {"string", "[]byte"}, s \in InputStrings }
        \cup { NilValue, [type |-> "int64", v |-> <<"4", "2">>],
               [type |-> "bool", v |-> <<"t", "r", "u", "e">>] }

(***************************************************************************)
(* The state: a caller's variables around the calls it makes.              *)
(***************************************************************************)
VARIABLES
    root,           \* which inputs the caller was given
    op,             \* the call that returned last, "none" before any
    timestamp,      \* the arguments of NewWithParams
    clockSeq,
    node,
    timestampBits,
    rnd,            \* the two bytes New read for the clock sequence
    input,          \* the string the caller was given
    buf,            \* the buffer the caller was given
    uuid,           \* the string in hand
    from,           \* the call that returned the string in hand
    uuidBytes,      \* the buffer in hand
    u,              \* the *UUIDv8 in hand
    data,           \* the JSON bytes given to or returned by the last call
    value,          \* the interface value given to or returned by it
    err,            \* the error the last call returned
    valid,          \* the boolean the last call returned
    panic,          \* whether the last call panicked
    reads,          \* the outcomes of the calls of rand.Read New made
    calls,          \* concurrent callers: the call each goroutine makes
    pc,             \* the statement each goroutine is at
    loc,            \* the heap location of each goroutine's buffer
    heap,           \* the byte slices allocated so far
    result          \* what each goroutine's call returned

\* the variables of the concurrent callers
goVars == <<calls, pc, loc, heap, result>>

\* the variables of the single caller
callerVars ==
    <<root, op, timestamp, clockSeq, node, timestampBits, rnd, input, buf,
      uuid, from, uuidBytes, u, data, value, err, valid, panic, reads>>

vars == <<callerVars, goVars>>

Roots == {"params", "clock", "struct", "text", "parse", "buffer", "json", "scan"}

Init ==
    /\ op = "none"
    /\ err = << >>
    /\ valid = FALSE
    /\ panic = FALSE
    /\ rnd = << >>
    /\ root \in Roots
    /\ IF root = "params"
       THEN /\ timestamp \in Timestamps
            /\ clockSeq \in ClockSeqs
            /\ node \in Nodes
            /\ timestampBits \in Widths
       ELSE /\ timestamp = Zero64
            /\ clockSeq = 0
            /\ node = << >>
            /\ timestampBits = 0
    /\ IF root \in {"text", "parse"}
       THEN input \in InputStrings
       ELSE input = << >>
    /\ uuid = input
    /\ from = IF root \in {"text", "parse"} THEN "caller" ELSE "none"
    /\ IF root = "buffer" THEN buf \in Buffers ELSE buf = << >>
    /\ uuidBytes = buf
    /\ IF root = "struct" THEN u \in Structs \cup {Nil}
       ELSE IF root \in {"json", "scan"} THEN u \in Receivers
       ELSE u = Nil
    /\ IF root = "json" THEN data \in JSONInputs ELSE data = << >>
    /\ IF root = "scan" THEN value \in ScanValues ELSE value = NilValue
    /\ reads = << >>
    /\ calls = << >>
    /\ pc = << >>
    /\ loc = << >>
    /\ heap = << >>
    /\ result = << >>

\* the roots on which the unexported helpers are called directly
HelperRoots == {"parse", "buffer"}

\* the caller holds a string to pass on
StringInHand == root \in {"text", "parse"} \/ uuid # << >>

\* uuid, err := NewWithParams(timestamp, clockSeq, node, timestampBits)
CallNewWithParams ==
    /\ root = "params"
    /\ op = "none"
    /\ LET r == NewWithParams(timestamp, clockSeq, node, timestampBits)
       IN  /\ uuid' = r.uuid
           /\ err' = r.err
    /\ from' = "NewWithParams"
    /\ op' = "NewWithParams"
    /\ valid' = FALSE
    /\ UNCHANGED <<root, timestamp, clockSeq, node, timestampBits, rnd,
                   input, buf, uuidBytes, u, data, value, panic>>
    /\ UNCHANGED <<reads, goVars>>

\* uuid, err := New(), with the clock reading `now` and the outcome of the
\* two reads of crypto/rand: New returns at the first read that fails
CallNew ==
    /\ root = "clock"
    /\ op = "none"
    /\ \E now \in Timestamps, r \in ClockSeqs,
          n \in {x \in Nodes : Len(x) = 6}, okSeq \in BOOLEAN, okNode \in BOOLEAN :
          /\ reads' = ReadsOfNew(okSeq, okNode)
          /\ IF ~okSeq
             THEN /\ err' = <<"failed to generate random clock sequence", "rand">>
                  /\ uuid' = << >>
                  /\ UNCHANGED <<timestamp, clockSeq, node, timestampBits, rnd>>
             ELSE IF ~okNode
             THEN /\ err' = <<"failed to generate random node", "rand">>
                  /\ uuid' = << >>
                  /\ rnd' = <<r \div 256, r % 256>>
                  /\ UNCHANGED <<timestamp, clockSeq, node, timestampBits>>
             ELSE LET clockSeqValue ==
                          BitAnd(BigEndianUint16(<<r \div 256, r % 256>>), 4095)
                      res == NewWithParams(now, clockSeqValue, n, TimestampBits48)
                  IN  /\ rnd' = <<r \div 256, r % 256>>
                      /\ timestamp' = now
                      /\ clockSeq' = clockSeqValue
                      /\ node' = n
                      /\ timestampBits' = TimestampBits48
                      /\ uuid' = res.uuid
                      /\ err' = res.err
    /\ from' = "New"
    /\ op' = "New"
    /\ valid' = FALSE
    /\ UNCHANGED <<root, input, buf, uuidBytes, u, data, value, panic>>
    /\ UNCHANGED goVars

\* u, err := FromString(uuid)
CallFromString ==
    /\ StringInHand
    /\ root \notin HelperRoots
    /\ ~panic
    /\ LET r == FromString(uuid)
       IN  /\ u' = r.u
           /\ err' = r.err
    /\ data' = << >>
    /\ value' = NilValue
    /\ op' = "FromString"
    /\ valid' = FALSE
    /\ UNCHANGED <<from, root, timestamp, clockSeq, node, timestampBits, rnd,
                   input, buf, uuid, uuidBytes, panic>>
    /\ UNCHANGED <<reads, goVars>>

\* valid := IsValidUUIDv8(uuid)
CallIsValidUUIDv8 ==
    /\ StringInHand
    /\ root \notin HelperRoots
    /\ ~panic
    /\ valid' = IsValidUUIDv8(uuid)
    /\ err' = << >>
    /\ data' = << >>
    /\ value' = NilValue
    /\ op' = "IsValidUUIDv8"
    /\ UNCHANGED <<from, root, timestamp, clockSeq, node, timestampBits, rnd,
                   input, buf, uuid, uuidBytes, u, panic>>
    /\ UNCHANGED <<reads, goVars>>

\* uuid := ToString(u); a nil u is dereferenced and the call panics
CallToString ==
    /\ root \notin HelperRoots
    /\ root = "struct" \/ u # Nil
    /\ ~panic
    /\ IF u = Nil
       THEN panic' = TRUE /\ UNCHANGED <<uuid, from>>
       ELSE uuid' = ToString(u) /\ from' = "ToString" /\ UNCHANGED panic
    /\ err' = << >>
    /\ data' = << >>
    /\ value' = NilValue
    /\ op' = "ToString"
    /\ valid' = FALSE
    /\ UNCHANGED <<root, timestamp, clockSeq, node, timestampBits, rnd,
                   input, buf, uuidBytes, u>>
    /\ UNCHANGED <<reads, goVars>>

\* uuidBytes, err := parseUUID(uuid)
CallParseUUID ==
    /\ root \in HelperRoots
    /\ StringInHand
    /\ LET r == parseUUID(uuid)
       IN  /\ uuidBytes' = r.bytes
           /\ err' = r.err
    /\ op' = "parseUUID"
    /\ valid' = FALSE
    /\ UNCHANGED <<from, root, timestamp, clockSeq, node, timestampBits, rnd,
                   input, buf, uuid, u, data, value, panic>>
    /\ UNCHANGED <<reads, goVars>>

\* uuid := formatUUID(uuidBytes), on the 16 bytes its callers pass
CallFormatUUID ==
    /\ root \in HelperRoots
    /\ Len(uuidBytes) = 16
    /\ err = << >>
    /\ uuid' = formatUUID(uuidBytes)
    /\ err' = << >>
    /\ from' = "formatUUID"
    /\ op' = "formatUUID"
    /\ valid' = FALSE
    /\ UNCHANGED <<root, timestamp, clockSeq, node, timestampBits, rnd,
                   input, buf, uuidBytes, u, data, value, panic>>
    /\ UNCHANGED <<reads, goVars>>

\* u = FromStringOrNil(uuid)
CallFromStringOrNil ==
    /\ StringInHand
    /\ root \notin HelperRoots
    /\ ~panic
    /\ u' = FromStringOrNil(uuid)
    /\ err' = << >>
    /\ data' = << >>
    /\ value' = NilValue
    /\ op' = "FromStringOrNil"
    /\ valid' = FALSE
    /\ UNCHANGED <<from, root, timestamp, clockSeq, node, timestampBits, rnd,
                   input, buf, uuid, uuidBytes, panic>>
    /\ UNCHANGED <<reads, goVars>>

\* data, err := u.MarshalJSON()
CallMarshalJSON ==
    /\ root \notin HelperRoots
    /\ root = "struct" \/ u # Nil
    /\ ~panic
    /\ LET r == MarshalJSON(u)
       IN  /\ data' = r.data
           /\ err' = r.err
    /\ value' = NilValue
    /\ op' = "MarshalJSON"
    /\ valid' = FALSE
    /\ UNCHANGED <<from, root, timestamp, clockSeq, node, timestampBits, rnd,
                   input, buf, uuid, uuidBytes, u, panic>>
    /\ UNCHANGED <<reads, goVars>>

\* err := u.UnmarshalJSON(data)
CallUnmarshalJSON ==
    /\ root = "json"
    /\ op = "none"
    /\ LET r == UnmarshalJSON(u, data)
       IN  /\ u' = r.u
           /\ err' = r.err
           /\ panic' = r.panic
    /\ op' = "UnmarshalJSON"
    /\ valid' = FALSE
    /\ UNCHANGED <<from, root, timestamp, clockSeq, node, timestampBits, rnd,
                   input, buf, uuid, uuidBytes, data, value>>
    /\ UNCHANGED <<reads, goVars>>

\* value, err := u.Value()
CallValue ==
    /\ root \notin HelperRoots
    /\ root = "struct" \/ u # Nil
    /\ ~panic
    /\ LET r == Value(u)
       IN  /\ value' = r.value
           /\ err' = r.err
    /\ data' = << >>
    /\ op' = "Value"
    /\ valid' = FALSE
    /\ UNCHANGED <<from, root, timestamp, clockSeq, node, timestampBits, rnd,
                   input, buf, uuid, uuidBytes, u, panic>>
    /\ UNCHANGED <<reads, goVars>>

\* err := u.Scan(value)
CallScan ==
    /\ root = "scan"
    /\ op = "none"
    /\ LET r == Scan(u, value)
       IN  /\ u' = r.u
           /\ err' = r.err
           /\ panic' = r.panic
    /\ op' = "Scan"
    /\ valid' = FALSE
    /\ UNCHANGED <<from, root, timestamp, clockSeq, node, timestampBits, rnd,
                   input, buf, uuid, uuidBytes, data, value>>
    /\ UNCHANGED <<reads, goVars>>

Next ==
    \/ CallNewWithParams
    \/ CallNew
    \/ CallFromString
    \/ CallFromStringOrNil
    \/ CallIsValidUUIDv8
    \/ CallToString
    \/ CallMarshalJSON
    \/ CallUnmarshalJSON
    \/ CallValue
    \/ CallScan
    \/ CallParseUUID
    \/ CallFormatUUID

Spec == Init /\ [][Next]_vars

(***************************************************************************)
(* Concurrent callers: goroutines that each make one call of               *)
(* NewWithParams, ToString, FromString or IsValidUUIDv8, statement by      *)
(* statement, on a heap of byte slices.                                    *)
(***************************************************************************)
\* the number of goroutines
MaxGoroutines == 2

Goroutines == 1..MaxGoroutines

\* the text of the identifier the goroutines parse
GoText == TextOf(BaseBuffer, TRUE, FALSE)

\* the calls a goroutine may make: NewWithParams with widths 48 and 60,
\* with a 5-byte node and with width 16, ToString of the README's struct,
\* FromString of an identifier and of a string that is none, and
\* IsValidUUIDv8 of an identifier
ConcurrentCalls ==
    { [fn |-> "NewWithParams",
       timestamp |-> <<0,1,2,3, 4,5,6,7, 8,9,10,11, 12,13,14,15>>,
       clockSeq |-> 1234, node |-> NodeOf(6), timestampBits |-> 48,
       uuid |-> << >>, u |-> Nil],
      [fn |-> "NewWithParams",
       timestamp |-> <<15,15,15,15, 15,15,15,15, 15,15,15,15, 15,15,15,15>>,
       clockSeq |-> 4095, node |-> [i \in 1..6 |-> 255], timestampBits |-> 60,
       uuid |-> << >>, u |-> Nil],
      [fn |-> "NewWithParams", timestamp |-> Zero64,
       clockSeq |-> 0, node |-> NodeOf(5), timestampBits |-> 48,
       uuid |-> << >>, u |-> Nil],
      [fn |-> "NewWithParams", timestamp |-> Zero64,
       clockSeq |-> 0, node |-> NodeOf(6), timestampBits |-> 16,
       uuid |-> << >>, u |-> Nil],
      [fn |-> "ToString", timestamp |-> Zero64,
       clockSeq |-> 0, node |-> << >>, timestampBits |-> 0,
       uuid |-> << >>, u |-> ReadmeStruct],
      [fn |-> "FromString", timestamp |-> Zero64,
       clockSeq |-> 0, node |-> << >>, timestampBits |-> 0,
       uuid |-> GoText, u |-> Nil],
      [fn |-> "FromString", timestamp |-> Zero64,
       clockSeq |-> 0, node |-> << >>, timestampBits |-> 0,
       uuid |-> <<"i", "n", "v", "a", "l", "i", "d", "-", "u", "u", "i", "d">>,
       u |-> Nil],
      [fn |-> "IsValidUUIDv8", timestamp |-> Zero64,
       clockSeq |-> 0, node |-> << >>, timestampBits |-> 0,
       uuid |-> GoText, u |-> Nil] }

\* what a call returns before it has returned
NoResult == [uuid |-> << >>, u |-> Nil, valid |-> FALSE, err |-> << >>]

\* a faulty NewLoc: every slice is made at the same location
NewLoc_Reuse(h) == 1

\* make([]byte, n): the location of the new slice, one no slice is at
NewLoc(h) == Len(h) + 1

\* the heap with the slice b at location l
Alloc(h, l, b) == IF l > Len(h) THEN Append(h, b) ELSE [h EXCEPT ![l] = b]

\* the first statement of a call
StartOf(fn) ==
    IF fn = "NewWithParams" THEN "len(node)"
    ELSE IF fn = "ToString" THEN "make"
    ELSE "parseUUID"

\* the timestamp, clock sequence, node and width NewWithParams or ToString
\* encodes
ArgsOf(c) ==
    IF c.fn = "ToString"
    THEN [timestamp |-> c.u.Timestamp, clockSeq |-> c.u.ClockSeq,
          node |-> c.u.Node, timestampBits |-> TimestampBits48]
    ELSE [timestamp |-> c.timestamp, clockSeq |-> c.clockSeq,
          node |-> c.node, timestampBits |-> c.timestampBits]

InitGo ==
    /\ root = "goroutines"
    /\ op = "none"
    /\ timestamp = Zero64
    /\ clockSeq = 0
    /\ node = << >>
    /\ timestampBits = 0
    /\ rnd = << >>
    /\ input = << >>
    /\ buf = << >>
    /\ uuid = << >>
    /\ from = "none"
    /\ uuidBytes = << >>
    /\ u = Nil
    /\ data = << >>
    /\ value = NilValue
    /\ err = << >>
    /\ valid = FALSE
    /\ panic = FALSE
    /\ reads = << >>
    /\ calls \in [Goroutines -> ConcurrentCalls]
    /\ pc = [g \in Goroutines |-> StartOf(calls[g].fn)]
    /\ loc = [g \in Goroutines |-> 0]
    /\ heap = << >>
    /\ result = [g \in Goroutines |-> NoResult]

\* goroutine g returns r
Return(g, r) ==
    /\ result' = [result EXCEPT ![g] = r]
    /\ pc' = [pc EXCEPT ![g] = "done"]

\* goroutine g goes on to the statement at
Goto(g, at) ==
    /\ pc' = [pc EXCEPT ![g] = at]
    /\ UNCHANGED result

\* goroutine g writes b into its slice
Store(g, b) == heap' = [heap EXCEPT ![loc[g]] = b]

\* if len(node) != 6 { return "", errors.New(...) }
GoCheckNode(g) ==
    /\ pc[g] = "len(node)"
    /\ IF Len(calls[g].node) # 6
       THEN Return(g, [NoResult EXCEPT !.err = ErrNodeLength])
       ELSE Goto(g, "make")
    /\ UNCHANGED <<calls, loc, heap, callerVars>>

\* uuid := make([]byte, 16)
GoMake(g) ==
    /\ pc[g] = "make"
    /\ loc' = [loc EXCEPT ![g] = NewLoc(heap)]
    /\ heap' = Alloc(heap, NewLoc(heap), Make16)
    /\ Goto(g, "encodeTimestamp")
    /\ UNCHANGED <<calls, callerVars>>

\* if err := encodeTimestamp(uuid, timestamp, timestampBits); err != nil
GoEncodeTimestamp(g) ==
    /\ pc[g] = "encodeTimestamp"
    /\ LET e == encodeTimestamp(heap[loc[g]], ArgsOf(calls[g]).timestamp,
                                ArgsOf(calls[g]).timestampBits)
       IN  IF e.err # << >>
           THEN Return(g, [NoResult EXCEPT !.err = e.err]) /\ UNCHANGED heap
           ELSE Store(g, e.uuid) /\ Goto(g, "version")
    /\ UNCHANGED <<calls, loc, callerVars>>

\* uuid[6] = (byte(versionV8) << 4) | byte(clockSeq>>8); uuid[7] = byte(clockSeq)
GoSetVersion(g) ==
    /\ pc[g] = "version"
    /\ Store(g, SetBytes(SetBytes(heap[loc[g]], 6,
                                  <<VersionByte(ArgsOf(calls[g]).clockSeq)>>),
                         7, <<ToByte(ArgsOf(calls[g]).clockSeq)>>))
    /\ Goto(g, "variant")
    /\ UNCHANGED <<calls, loc, callerVars>>

\* uuid[7] = (uuid[7] & 0x3F) | (variantRFC4122 << 6)
GoSetVariant(g) ==
    /\ pc[g] = "variant"
    /\ Store(g, SetBytes(heap[loc[g]], 7, <<VariantByte(heap[loc[g]][8])>>))
    /\ Goto(g, "copy")
    /\ UNCHANGED <<calls, loc, callerVars>>

\* copy(uuid[8:], node)
GoCopyNode(g) ==
    /\ pc[g] = "copy"
    /\ Store(g, Copy(heap[loc[g]], 8, ArgsOf(calls[g]).node))
    /\ Goto(g, "formatUUID")
    /\ UNCHANGED <<calls, loc, callerVars>>

\* return formatUUID(uuid), nil
GoFormat(g) ==
    /\ pc[g] = "formatUUID"
    /\ Return(g, [NoResult EXCEPT !.uuid = formatUUID(heap[loc[g]])])
    /\ UNCHANGED <<calls, loc, heap, callerVars>>

\* uuidBytes, err := parseUUID(uuid), which decodes into a slice of its own
GoParse(g) ==
    /\ pc[g] = "parseUUID"
    /\ LET p == parseUUID(calls[g].uuid)
       IN  IF p.err # << >>
           THEN /\ Return(g, IF calls[g].fn = "FromString"
                             THEN [NoResult EXCEPT
                                      !.err = <<"failed to parse UUID">> \o p.err]
                             ELSE NoResult)
                /\ UNCHANGED <<loc, heap>>
           ELSE /\ loc' = [loc EXCEPT ![g] = NewLoc(heap)]
                /\ heap' = Alloc(heap, NewLoc(heap), p.bytes)
                /\ Goto(g, IF calls[g].fn = "FromString" THEN "decode"
                           ELSE "validate")
    /\ UNCHANGED <<calls, callerVars>>

\* FromString: return &UUIDv8{Timestamp: ..., ClockSeq: ..., Node: ...}, nil
GoDecode(g) ==
    /\ pc[g] = "decode"
    /\ LET b == heap[loc[g]]
       IN  Return(g, [NoResult EXCEPT
                         !.u = [Timestamp |-> decodeTimestamp(b),
                                ClockSeq |->
                                    BitOr(BitAnd(b[7], 15) * 256, b[8]),
                                Node |-> SubSeq(b, 9, 14)]])
    /\ UNCHANGED <<calls, loc, heap, callerVars>>

\* IsValidUUIDv8: the all-zero test, then version and variant
GoValidate(g) ==
    /\ pc[g] = "validate"
    /\ LET b == heap[loc[g]]
       IN  Return(g, [NoResult EXCEPT
                         !.valid = /\ ~isAllZeroUUID(b)
                                   /\ b[7] \div 16 = versionV8
                                   /\ BitAnd(b[8] \div 64, 3) = variantRFC4122])
    /\ UNCHANGED <<calls, loc, heap, callerVars>>

NextGo ==
    \/ \E g \in Goroutines : GoCheckNode(g)
    \/ \E g \in Goroutines : GoMake(g)
    \/ \E g \in Goroutines : GoEncodeTimestamp(g)
    \/ \E g \in Goroutines : GoSetVersion(g)
    \/ \E g \in Goroutines : GoSetVariant(g)
    \/ \E g \in Goroutines : GoCopyNode(g)
    \/ \E g \in Goroutines : GoFormat(g)
    \/ \E g \in Goroutines : GoParse(g)
    \/ \E g \in Goroutines : GoDecode(g)
    \/ \E g \in Goroutines : GoValidate(g)

SpecGo == InitGo /\ [][NextGo]_vars

(***************************************************************************)
(* What the properties below are stated with: the text of an identifier    *)
(* read character by character, independently of the package's codec.      *)
(***************************************************************************)
HexChars ==
    { "0", "1", "2", "3", "4", "5", "6", "7", "8", "9",
      "a", "b", "c", "d", "e", "f", "A", "B", "C", "D", "E", "F" }

\* the value of a lower-case digit
ValueOfDigit(c) == (CHOOSE k \in 1..16 : DigitsOf(FALSE)[k] = c) - 1

\* the byte written as the two lower-case digits s[i], s[i+1]
ByteAt(s, i) == 16 * ValueOfDigit(s[i]) + ValueOfDigit(s[i + 1])

\* the positions of the dashes in the 36-character form
DashPositions == {9, 14, 19, 24}

\* t mod 2^48
Trunc48(t) == [i \in 1..16 |-> IF i <= 4 THEN 0 ELSE t[i]]

\* a call that returns an identifier has returned one
Generated ==
    /\ op \in {"NewWithParams", "New", "ToString"}
    /\ err = << >>
    /\ ~panic

\* the clock sequence the generating call was given
GivenClockSeq == IF op = "ToString" THEN u.ClockSeq ELSE clockSeq

SupportedWidths == {32, 48, 60}

(***************************************************************************)
(* C1..C10                                                                 *)
(***************************************************************************)

\* C1: an identifier made by NewWithParams with width 48, a clock sequence
\* in 0..4095 and a 6-byte node is parsed by FromString without error into
\* ClockSeq = clock sequence, Node = node and Timestamp = timestamp mod 2^48.
C1_RoundTrip48 ==
    (/\ op = "FromString"
     /\ from = "NewWithParams"
     /\ timestampBits = 48
     /\ clockSeq \in 0..4095)
        => /\ err = << >>
           /\ u # Nil
           /\ u.ClockSeq = clockSeq
           /\ u.Node = node
           /\ u.Timestamp = Trunc48(timestamp)

\* C2: every string NewWithParams returns for a non-zero timestamp, any
\* 16-bit clock sequence, a 6-byte node and a supported width is accepted
\* by IsValidUUIDv8.
C2_GeneratedIsValid ==
    (/\ op = "IsValidUUIDv8"
     /\ from = "NewWithParams"
     /\ timestamp # Zero64)
        => valid

\* C3: in every string NewWithParams, New or ToString returns, the 13th
\* hex digit (the upper nibble of byte 6) is 8, whatever the inputs.
C3_VersionTag == Generated => uuid[15] = "8"

\* C4: in every string NewWithParams, New or ToString returns, the top two
\* bits of byte 7 are 10: byte 7 is the low 6 bits of the clock sequence
\* plus 0x80.
C4_VariantTag ==
    Generated
        => /\ ByteAt(uuid, 17) \div 64 = 2
           /\ ByteAt(uuid, 17) = (GivenClockSeq % 64) + 128

\* C4 happens: a clock sequence whose bits 6 and 7 are set is encoded as bf
C4_Witness ==
    /\ op = "NewWithParams"
    /\ err = << >>
    /\ clockSeq = 255
    /\ uuid[17] = "b"
    /\ uuid[18] = "f"

\* C5: for a 6-byte node and a supported width NewWithParams returns no
\* error, and the string it returns for a clock sequence c is the one it
\* returns for c mod 4096: bits 12..15 of c have no effect.
C5_ClockSeqMasked ==
    (/\ op = "NewWithParams"
     /\ Len(node) = 6
     /\ timestampBits \in SupportedWidths)
        => /\ err = << >>
           /\ uuid = NewWithParams(timestamp, clockSeq % 4096, node,
                                   timestampBits).uuid

\* C6: with the same timestamp, node and width, two different clock
\* sequences in 0..4095 give two different strings.
C6_ClockSeqDistinguishes ==
    (/\ op = "NewWithParams"
     /\ err = << >>
     /\ clockSeq \in 0..4095)
        => \A c \in (ClockSeqs \cap 0..4095) \ {clockSeq} :
              NewWithParams(timestamp, c, node, timestampBits).uuid # uuid

\* C7: NewWithParams returns no error exactly when the node has 6 bytes and
\* the width is 32, 48 or 60; otherwise it returns an error and the empty
\* string, and a node of another length is reported whatever the width.
C7_NewWithParamsErrors ==
    op = "NewWithParams"
        => /\ err = << >> <=> (Len(node) = 6 /\ timestampBits \in SupportedWidths)
           /\ err # << >> => uuid = << >>
           /\ err = << >> => Len(uuid) = 36
           /\ Len(node) # 6 => err = <<"node must be 6 bytes">>
           /\ (Len(node) = 6 /\ timestampBits \notin SupportedWidths)
                 => err = <<"unsupported timestamp bit size">>

\* C7 happens: a 7-byte node with width 64 is refused for its node
C7_Witness ==
    /\ op = "NewWithParams"
    /\ Len(node) = 7
    /\ timestampBits = 64
    /\ err = <<"node must be 6 bytes">>
    /\ uuid = << >>

\* a string of 32 hex digits, or of 36 characters with dashes at 8, 13, 18
\* and 23 (counted from 0) and hex digits elsewhere
Parseable(s) ==
    \/ Len(s) = 32 /\ \A i \in 1..32 : s[i] \in HexChars
    \/ /\ Len(s) = 36
       /\ \A i \in 1..36 : IF i \in DashPositions THEN s[i] = "-"
                           ELSE s[i] \in HexChars

\* the 32 digits of a parseable string
DigitsIn(s) ==
    IF Len(s) = 32 THEN s
    ELSE SubSeq(s, 1, 8) \o SubSeq(s, 10, 13) \o SubSeq(s, 15, 18)
            \o SubSeq(s, 20, 23) \o SubSeq(s, 25, 36)

\* parseable, not all zero, upper nibble of byte 6 equal to 8 and top two
\* bits of byte 7 equal to 10
WellFormedV8(s) ==
    /\ Parseable(s)
    /\ \E i \in 1..32 : DigitsIn(s)[i] # "0"
    /\ DigitsIn(s)[13] = "8"
    /\ DigitsIn(s)[15] \in {"8", "9", "a", "b", "A", "B"}

\* C8: IsValidUUIDv8 is true exactly for the strings that parse to 16
\* bytes that are not all zero, with version nibble 8 and variant bits 10.
C8_IsValidExactly == op = "IsValidUUIDv8" => (valid <=> WellFormedV8(uuid))

\* C8 happens: an upper-case string without dashes is accepted
C8_Witness ==
    /\ op = "IsValidUUIDv8"
    /\ root = "text"
    /\ Len(uuid) = 32
    /\ uuid[1] = "D"
    /\ valid

\* the error parseUUID is to return for s, nil for a parseable s
ExpectedParseError(s) ==
    IF Len(s) # 32 /\ Len(s) # 36 THEN <<"invalid UUID length">>
    ELSE IF Len(s) = 36 /\ \E i \in DashPositions : s[i] # "-"
    THEN <<"invalid UUID format">>
    ELSE IF \E i \in 1..Len(s) :
                /\ Len(s) = 32 \/ i \notin DashPositions
                /\ s[i] \notin HexChars
    THEN <<"encoding/hex: invalid byte">>
    ELSE << >>

\* C9: parseUUID, called directly or through FromString, fails with the
\* length error for a length other than 32 and 36, with the format error
\* for 36 characters with a dash missing at 8, 13, 18 or 23, with the hex
\* error when any other character is no hex digit, and otherwise succeeds
\* with 16 bytes.
C9_ParseErrors ==
    /\ op = "FromString"
          => /\ ExpectedParseError(uuid) # << >>
                  => /\ err = <<"failed to parse UUID">> \o ExpectedParseError(uuid)
                     /\ u = Nil
             /\ ExpectedParseError(uuid) = << >>
                  => err = << >> /\ u # Nil /\ Len(u.Node) = 6
    /\ op = "parseUUID"
          => /\ err = ExpectedParseError(uuid)
             /\ err = << >> => Len(uuidBytes) = 16

\* C9 happens: a 36-character string with a fifth dash fails in the hex
\* decoder
C9_Witness ==
    /\ op = "FromString"
    /\ Len(uuid) = 36
    /\ \A i \in DashPositions : uuid[i] = "-"
    /\ uuid[1] = "-"
    /\ err = <<"failed to parse UUID", "encoding/hex: invalid byte">>

\* the lower-case form of a character
LowerOf(c) ==
    IF c = "A" THEN "a" ELSE IF c = "B" THEN "b" ELSE IF c = "C" THEN "c"
    ELSE IF c = "D" THEN "d" ELSE IF c = "E" THEN "e"
    ELSE IF c = "F" THEN "f" ELSE c

\* the lower-case dashed form of a parseable string
LowerDashed(s) == WithDashes([i \in 1..32 |-> LowerOf(DigitsIn(s)[i])])

\* C10: parseUUID(formatUUID(b)) returns b without error for every
\* 16-byte buffer b, and formatUUID(parseUUID(s)) is the lower-case dashed
\* form of every parseable s.
C10_TextRoundTrip ==
    /\ (root = "buffer" /\ op = "parseUUID")
          => err = << >> /\ uuidBytes = buf
    /\ (root = "parse" /\ op = "formatUUID")
          => Parseable(input) /\ uuid = LowerDashed(input)

\* C10 happens: an upper-case string without dashes comes back lower-case
\* and dashed
C10_Witness ==
    /\ root = "parse"
    /\ op = "formatUUID"
    /\ Len(input) = 32
    /\ input[1] = "D"
    /\ uuid[1] = "d"
    /\ uuid[9] = "-"

(***************************************************************************)
(* C11..C20                                                                *)
(***************************************************************************)
LowerHex ==
    { "0", "1", "2", "3", "4", "5", "6", "7", "8", "9",
      "a", "b", "c", "d", "e", "f" }

\* s has the canonical form 8-4-4-4-12 in lower case
Canonical(s) ==
    /\ Len(s) = 36
    /\ \A i \in 1..36 :
          IF i \in DashPositions THEN s[i] = "-" ELSE s[i] \in LowerHex

\* the position in the text of the first digit of byte k (k in 0..15)
DigitPos(k) ==
    2 * k + 1 + (IF k >= 4 THEN 1 ELSE 0) + (IF k >= 6 THEN 1 ELSE 0)
              + (IF k >= 8 THEN 1 ELSE 0) + (IF k >= 10 THEN 1 ELSE 0)

\* the 16 bytes of an identifier of width 48 with a clock sequence of at
\* most 12 bits and a 6-byte node, written from the fields by arithmetic
ExpectedBuffer48(t, cs, n) ==
    [i \in 1..16 |->
        IF i <= 6 THEN 16 * t[3 + 2 * i] + t[4 + 2 * i]
        ELSE IF i = 7 THEN 128 + (cs \div 256)
        ELSE IF i = 8 THEN 128 + (cs % 64)
        ELSE IF i <= 14 THEN n[i - 8]
        ELSE 0]

\* C11: every string NewWithParams, New or ToString returns has 36
\* characters, a dash at positions 8, 13, 18 and 23 (counted from 0) and a
\* lower-case hex digit everywhere else; the digits are the bytes of the
\* buffer in order, two per byte: formatUUID writes byte k of its buffer at
\* the digits of byte k, and the node given to NewWithParams or New is read
\* at bytes 8..13.
C11_CanonicalForm ==
    /\ Generated => Canonical(uuid)
    /\ (Generated /\ op \in {"NewWithParams", "New"})
          => \A k \in 8..13 : ByteAt(uuid, DigitPos(k)) = node[k - 7]
    /\ op = "formatUUID"
          => /\ Canonical(uuid)
             /\ \A k \in 0..15 : ByteAt(uuid, DigitPos(k)) = uuidBytes[k + 1]

\* C11 happens: ToString returned a canonical string that holds letters
C11_Witness ==
    /\ op = "ToString"
    /\ ~panic
    /\ Len(uuid) = 36
    /\ uuid[1] = "f"
    /\ uuid[9] = "-"

\* C12: MarshalJSON returns an error and no bytes exactly when the
\* receiver is nil, len(Node) is not 6, Timestamp is 0 or ClockSeq is above
\* 4095; for every other struct it returns, without error, the string
\* ToString(u) = NewWithParams(u.Timestamp, u.ClockSeq, u.Node, 48) in
\* double quotes.
C12_MarshalJSONContract ==
    op = "MarshalJSON"
        => IF \/ u = Nil
              \/ Len(u.Node) # 6
              \/ u.Timestamp = Zero64
              \/ u.ClockSeq > 4095
           THEN err # << >> /\ data = << >>
           ELSE /\ err = << >>
                /\ data = <<QUOTE>> \o ToString(u) \o <<QUOTE>>
                /\ ToString(u) =
                      NewWithParams(u.Timestamp, u.ClockSeq, u.Node,
                                    TimestampBits48).uuid
                /\ data = Quoted(TextOf(ExpectedBuffer48(u.Timestamp,
                                            u.ClockSeq, u.Node), TRUE, FALSE))

\* C12 happens: a struct with the largest clock sequence is marshalled
C12_Witness ==
    /\ op = "MarshalJSON"
    /\ root = "struct"
    /\ u # Nil
    /\ u.ClockSeq = 4095
    /\ err = << >>
    /\ Len(data) = 38

\* the string the README prints for its struct
ReadmeGolden ==
    <<"0", "1", "b", "6", "9", "b", "4", "f",
      "-", "0", "0", "0", "0", "-", "8", "8", "0", "0",
      "-", "0", "1", "0", "2",
      "-", "0", "3", "0", "4", "0", "5", "0", "6", "0", "0", "0", "0">>

\* C13: marshalling the struct of the README, {Timestamp: 123456789,
\* ClockSeq: 0x0800, Node: 01 02 03 04 05 06}, outputs exactly
\* "01b69b4f-0000-8800-0102-030405060000".
C13_ReadmeGolden ==
    (op = "MarshalJSON" /\ u = ReadmeStruct)
        => err = << >> /\ data = Quoted(ReadmeGolden)

\* the ways the inputs spell the string s as JSON
SpellingsOf(s) ==
    IF s \in BufferTexts THEN {Quoted(s), Spaced(s), EscapedHead(s)}
    ELSE {Quoted(s)}

\* the input strings that the JSON text d spells
JSONStringsOf(d) ==
    { s \in InputStrings :
        /\ \A i \in 1..Len(s) : s[i] \notin ControlChars
        /\ d \in SpellingsOf(s) }

\* C14: UnmarshalJSON on a receiver succeeds exactly when data is a JSON
\* string s that is a valid UUIDv8 (parseable, not all zero, version 8,
\* variant 10), and on success the receiver holds the fields FromString(s)
\* returns; everything else is an error.
C14_UnmarshalJSONContract ==
    (op = "UnmarshalJSON" /\ ~panic)
        => /\ err = << >> <=> \E s \in JSONStringsOf(data) : WellFormedV8(s)
           /\ err = << >> => \E s \in JSONStringsOf(data) : u = FromString(s).u

\* C14 happens: a valid identifier spelt with an escape is unmarshalled
C14_Witness ==
    /\ op = "UnmarshalJSON"
    /\ err = << >>
    /\ ~panic
    /\ Len(data) > 2
    /\ data[2] = BACKSLASH
    /\ u.Node = <<157, 239, 1, 35, 69, 103>>

\* C15: Value never returns an error; it returns nil when the receiver is
\* nil or len(Node) is not 6, and the canonical string ToString(u) for
\* every other struct, whatever Timestamp and ClockSeq are.
C15_ValueContract ==
    op = "Value"
        => /\ err = << >>
           /\ IF u = Nil \/ Len(u.Node) # 6 THEN value = NilValue
              ELSE /\ value.type = "string"
                   /\ value.v = ToString(u)
                   /\ Canonical(value.v)

\* C15 happens: a struct MarshalJSON rejects is written as a string
C15_Witness ==
    /\ op = "Value"
    /\ u # Nil
    /\ u.Timestamp = Zero64
    /\ u.ClockSeq > 4095
    /\ value.type = "string"
    /\ Len(value.v) = 36

\* C16: Scan on a receiver given a string or a []byte holding the text s
\* behaves as FromString(s): it returns FromString's error when s is not
\* parseable, and otherwise stores the fields FromString returns, with no
\* check of version, variant or all-zero; given a value of any other type
\* it returns the unsupported-type error.
C16_ScanContract ==
    (op = "Scan" /\ ~panic)
        => IF value.type \in {"string", "[]byte"}
           THEN /\ err = << >> <=> Parseable(value.v)
                /\ err = FromString(value.v).err
                /\ err = << >> => u = FromString(value.v).u
           ELSE err = <<"unsupported type for UUIDv8">>

\* C16 happens: the all-zero identifier held in a []byte is scanned
C16_Witness ==
    /\ op = "Scan"
    /\ ~panic
    /\ value.type = "[]byte"
    /\ err = << >>
    /\ u = [Timestamp |-> Zero64, ClockSeq |-> 0, Node |-> [i \in 1..6 |-> 0]]

\* C17: FromStringOrNil(s) is non-nil exactly when IsValidUUIDv8(s) is
\* true.
C17_OrNilIffValid ==
    op = "FromStringOrNil" => (u # Nil <=> WellFormedV8(uuid))

\* C18: no public operation panics, whatever it is given: a nil *UUIDv8, a
\* nil, short or over-long Node, any string.
C18_NoPanic == ~panic

\* C19: when both random reads succeed, New returns
\* NewWithParams(now, r AND 0x0FFF, node, 48) for the clock reading now, the
\* big-endian 16-bit value r of the two random bytes and the 6 random
\* bytes node; the string is accepted by IsValidUUIDv8 and parsed without
\* error by FromString.
C19_NewDelegates ==
    /\ (op = "New" /\ err = << >>)
          => /\ Len(rnd) = 2
             /\ Len(node) = 6
             /\ uuid = NewWithParams(timestamp,
                                     (256 * rnd[1] + rnd[2]) % 4096, node,
                                     TimestampBits48).uuid
             /\ uuid = TextOf(ExpectedBuffer48(timestamp,
                                  (256 * rnd[1] + rnd[2]) % 4096, node),
                              TRUE, FALSE)
    /\ (op = "IsValidUUIDv8" /\ from = "New" /\ uuid # << >>) => valid
    /\ (op = "FromString" /\ from = "New" /\ uuid # << >>)
          => err = << >> /\ u # Nil

\* C19 happens: a string New made of a random value with its top bits set
\* is parsed
C19_Witness ==
    /\ op = "FromString"
    /\ from = "New"
    /\ uuid # << >>
    /\ rnd = <<240, 0>>
    /\ err = << >>

\* C20: for every string New returns, whatever the clock reading and the
\* random bytes, FromString returns Timestamp # 0 and ClockSeq # 0.
C20_NewNonZeroFields ==
    (op = "FromString" /\ from = "New" /\ uuid # << >>)
        => u.Timestamp # Zero64 /\ u.ClockSeq # 0

(***************************************************************************)
(* C21..C30                                                                *)
(***************************************************************************)

\* C22: for every string s NewWithParams returns with width 48, a clock
\* sequence in 0..4095 and a 6-byte node, whatever the timestamp, parsing s
\* and marshalling the struct succeeds and returns s in double quotes.
C22_JSONRoundTrip ==
    (/\ op = "MarshalJSON"
     /\ root = "params"
     /\ from = "NewWithParams"
     /\ timestampBits = 48
     /\ clockSeq \in 0..4095)
        => err = << >> /\ data = <<QUOTE>> \o uuid \o <<QUOTE>>

\* C22, amended: the same holds for every timestamp whose low 48 bits are
\* not all zero; when they are all zero the parsed struct has Timestamp 0
\* and MarshalJSON returns an error and no bytes.
C22_JSONRoundTripNonZero ==
    (/\ op = "MarshalJSON"
     /\ root = "params"
     /\ from = "NewWithParams"
     /\ timestampBits = 48
     /\ clockSeq \in 0..4095)
        => IF Trunc48(timestamp) # Zero64
           THEN err = << >> /\ data = <<QUOTE>> \o uuid \o <<QUOTE>>
           ELSE err = <<"object is not a valid UUIDv8">> /\ data = << >>

\* C22 happens: an identifier with the largest clock sequence and a
\* timestamp above 48 bits comes back from MarshalJSON
C22_Witness ==
    /\ op = "MarshalJSON"
    /\ root = "params"
    /\ from = "NewWithParams"
    /\ timestampBits = 48
    /\ clockSeq = 4095
    /\ timestamp[1] = 15
    /\ err = << >>
    /\ Len(data) = 38

\* C23: for every canonical string s that IsValidUUIDv8 accepts, Scan(s)
\* succeeds and ToString of the scanned struct returns s, all 16 bytes.
C23_ScanToString ==
    [][(/\ op = "Scan"
        /\ op' = "ToString"
        /\ value.type = "string"
        /\ Canonical(value.v)
        /\ WellFormedV8(value.v))
          => err = << >> /\ ~panic /\ ~panic' /\ uuid' = value.v]_vars

\* the uint64 whose low 48 bits are the bytes 0..5 written in the 32 digits d
TimestampOfDigits(d) ==
    [i \in 1..16 |-> IF i <= 4 THEN 0 ELSE ValueOfDigit(LowerOf(d[i - 4]))]

\* the byte k (0..15) written in the 32 digits d
ByteOfDigits(d, k) ==
    16 * ValueOfDigit(LowerOf(d[2 * k + 1])) + ValueOfDigit(LowerOf(d[2 * k + 2]))

C25_EncoderLayout ==
    (op = "NewWithParams" /\ err = << >>)
        => /\ Canonical(uuid)
           /\ \A k \in 0..5 :
                 ByteAt(uuid, DigitPos(k)) =
                    IF timestampBits = 32
                    THEN (IF k <= 3
                          THEN 16 * timestamp[9 + 2 * k] + timestamp[10 + 2 * k]
                          ELSE 0)
                    ELSE IF timestampBits = 48
                    THEN 16 * timestamp[5 + 2 * k] + timestamp[6 + 2 * k]
                    ELSE 16 * timestamp[2 + 2 * k] + timestamp[3 + 2 * k]
           /\ timestampBits \in SupportedWidths
           /\ \A k \in 8..13 : ByteAt(uuid, DigitPos(k)) = node[k - 7]
           /\ \A k \in 14..15 : ByteAt(uuid, DigitPos(k)) = 0

\* C25 happens: a timestamp with sixteen different digits is encoded with
\* width 32
C25_Witness ==
    /\ op = "NewWithParams"
    /\ err = << >>
    /\ timestampBits = 32
    /\ timestamp = <<0,1,2,3, 4,5,6,7, 8,9,10,11, 12,13,14,15>>
    /\ SubSeq(uuid, 1, 13) = <<"8", "9", "a", "b", "c", "d", "e", "f", "-",
                               "0", "0", "0", "0">>

\* t with bits 11..8 inverted
FlipBits11to8(t) == [i \in 1..16 |-> IF i = 14 THEN 15 - t[i] ELSE t[i]]

\* C26: in the string NewWithParams returns with width 60 the low nibble
\* of byte 6 holds bits 11..8 of the timestamp, so a timestamp that differs
\* only in these bits gives a different string.
C26_Width60Remainder ==
    (op = "NewWithParams" /\ err = << >> /\ timestampBits = 60)
        => /\ ByteAt(uuid, DigitPos(6)) % 16 = timestamp[14]
           /\ uuid # NewWithParams(FlipBits11to8(timestamp), clockSeq, node,
                                   TimestampBits60).uuid

\* the zero value of UUIDv8
ZeroStruct == [Timestamp |-> Zero64, ClockSeq |-> 0, Node |-> << >>]

\* C28: ToString returns a string of 36 characters, never the empty one,
\* for every struct (the zero value gives
\* "00000000-0000-8080-0000-000000000000"): encoding with width 48 cannot
\* fail; and MarshalJSON never returns the error of its second check.
C28_ToStringNeverEmpty ==
    /\ (op = "ToString" /\ ~panic)
          => /\ uuid # << >>
             /\ Len(uuid) = 36
             /\ encodeTimestamp(Make16, u.Timestamp, TimestampBits48).err = << >>
             /\ u = ZeroStruct
                   => uuid = TextOf([i \in 1..16 |->
                                        IF i \in {7, 8} THEN 128 ELSE 0],
                                    TRUE, FALSE)
    /\ op = "MarshalJSON"
          => err # <<"string representation is not a valid UUIDv8">>

\* C28 happens: ToString of the zero value
C28_Witness ==
    /\ op = "ToString"
    /\ ~panic
    /\ u = ZeroStruct
    /\ uuid[15] = "8"
    /\ uuid[17] = "8"

\* C30: the struct FromString or FromStringOrNil returns for a parseable
\* string has ClockSeq in 0..4095 and a Node of 6 bytes; for a string made
\* by NewWithParams, New or ToString, ClockSeq mod 256 lies in 128..191.
C30_DecodedRanges ==
    /\ (op = "FromString" /\ Parseable(uuid)) => u # Nil
    /\ (op \in {"FromString", "FromStringOrNil"} /\ u # Nil)
          => /\ Parseable(uuid)
             /\ u.ClockSeq \in 0..4095
             /\ Len(u.Node) = 6
             /\ from \in {"NewWithParams", "New", "ToString"}
                   => (u.ClockSeq % 256) \in 128..191

\* C30 happens: FromStringOrNil decodes a string whose byte 6 is 0xFF
C30_Witness ==
    /\ op = "FromStringOrNil"
    /\ u # Nil
    /\ uuid[1] = "f"
    /\ Len(uuid) = 36
    /\ uuid[15] = "f"
    /\ u.ClockSeq = 4095

\* what a call returns when no other call runs
Alone(c) ==
    IF c.fn = "NewWithParams"
    THEN [NoResult EXCEPT
             !.uuid = NewWithParams(c.timestamp, c.clockSeq, c.node,
                                    c.timestampBits).uuid,
             !.err = NewWithParams(c.timestamp, c.clockSeq, c.node,
                                   c.timestampBits).err]
    ELSE IF c.fn = "ToString" THEN [NoResult EXCEPT !.uuid = ToString(c.u)]
    ELSE IF c.fn = "FromString"
    THEN [NoResult EXCEPT !.u = FromString(c.uuid).u,
                          !.err = FromString(c.uuid).err]
    ELSE [NoResult EXCEPT !.valid = IsValidUUIDv8(c.uuid)]

\* C21: in every interleaving of concurrent calls of NewWithParams,
\* FromString, IsValidUUIDv8 and ToString, each call returns what it
\* returns when run alone, and no two calls work on the same byte slice.
C21_ConcurrentCallsIndependent ==
    /\ \A g \in Goroutines : pc[g] = "done" => result[g] = Alone(calls[g])
    /\ \A g, h \in Goroutines :
          (g # h /\ loc[g] # 0 /\ loc[h] # 0) => loc[g] # loc[h]

\* C21 happens: two calls of NewWithParams with different arguments have
\* both returned a string, the second goroutine having made its slice first
C21_Witness ==
    /\ root = "goroutines"
    /\ pc[1] = "done"
    /\ pc[2] = "done"
    /\ calls[1].fn = "NewWithParams"
    /\ calls[2].fn = "NewWithParams"
    /\ calls[1].timestampBits = 48
    /\ calls[2].timestampBits = 60
    /\ loc[2] = 1
    /\ loc[1] = 2
    /\ result[1].uuid # << >>
    /\ result[2].uuid # << >>

\* C27: New returns the empty string and an error when a random read
\* fails: after a failed read of the clock sequence it reads no node and
\* encodes nothing; after a failed read of the node it encodes nothing; no
\* read is made twice, and a string is returned only after both reads
\* succeeded.
C27_EntropyFailure ==
    op = "New"
        => /\ reads \in {<<FALSE>>, <<TRUE, FALSE>>, <<TRUE, TRUE>>}
           /\ reads = <<FALSE>>
                 => /\ err = <<"failed to generate random clock sequence", "rand">>
                    /\ uuid = << >>
                    /\ rnd = << >>
                    /\ node = << >>
                    /\ timestampBits = 0
           /\ reads = <<TRUE, FALSE>>
                 => /\ err = <<"failed to generate random node", "rand">>
                    /\ uuid = << >>
                    /\ node = << >>
                    /\ timestampBits = 0
           /\ reads = <<TRUE, TRUE>> => err = << >> /\ Len(uuid) = 36

\* C27 happens: the read of the node failed
C27_Witness ==
    /\ op = "New"
    /\ reads = <<TRUE, FALSE>>
    /\ uuid = << >>
    /\ err # << >>

\* C29: when UnmarshalJSON or Scan returns an error the receiver is what
\* it was before the call; it is overwritten only when the call succeeds,
\* and then with all the fields of the parsed struct.
C29_ReceiverUnchangedOnFailure ==
    [][(op = "none" /\ op' \in {"UnmarshalJSON", "Scan"})
          => IF err' # << >> \/ panic'
             THEN u' = u
             ELSE /\ u # Nil
                  /\ Len(u'.Node) = 6
                  /\ IF op' = "Scan" THEN u' = FromString(value.v).u
                     ELSE \E s \in JSONStringsOf(data) : u' = FromString(s).u]_vars

\* C29 happens: UnmarshalJSON rejected a string that is no valid UUIDv8
\* and the receiver still holds the README's struct
C29_Witness ==
    /\ op = "UnmarshalJSON"
    /\ err = <<"input is not a valid UUIDv8">>
    /\ Len(data) = 38
    /\ u = ReadmeStruct

=============================================================================
